---------------------------- MODULE Spec2Model ----------------------------
(* A model of the clack event value layer (Match / Pckn / NoteEvent), of   *)
(* the GUI extension (PluginGui and the HostGui trampolines), of the Log   *)
(* extension, of event lists, of plugin instantiation and of the gain      *)
(* example plugin.                                                         *)
(*                                                                         *)
(* Pure functions are operators computed the way the Rust code computes    *)
(* them, integer casts keep their width.  Every call is an action that     *)
(* draws its arguments from a bounded set and records the call in `call`.  *)
EXTENDS Integers, Sequences, FiniteSets, TLC

VARIABLES
    call,       \* the last call made: [op, in, out]
    ev,         \* the typed note event currently held: << >> or << event >>
    gui_table,  \* clap_plugin_gui: the set of operations whose pointer is Some
    invoked,    \* the plugin functions the last call invoked, in order
    input,      \* an event list: the events submitted / handed to the plugin
    output,     \* an event list: the one appended to
    rusting,    \* GainPluginMainThread::rusting
    instance    \* the plugin instance the host holds, and how it came about

\* the variables of the event lists, the gain example and the instance
plugin_vars == <<input, output, rusting, instance>>

vars == <<call, ev, gui_table, invoked, plugin_vars>>

\* no event list holds an event, no plugin was instantiated
PluginIdle ==
    /\ input = << >>
    /\ output = << >>
    /\ rusting = 0
    /\ instance = << >>

---------------------------------------------------------------------------
(* Bounds of the model.                                                    *)

\* small specific values 0..MaxSmall of a u16 / u32 field
MaxSmall == 1
\* how far below / above each integer boundary the inputs reach
MaxEdge == 0
\* negative raw inputs other than the -1 sentinel: -1 - k, k in 0..MaxNeg
MaxNeg == 1
\* velocities 0..MaxVel, in tenths (8 stands for 0.8), besides NaN
MaxVel == 1

---------------------------------------------------------------------------
(* Integer widths and casts.                                               *)

\* the width of i16 / u16, and of each half of a 32-bit word
Bits16 == 16

Pow2(n) == 2 ^ n

\* `x as u16`, `x as u32`: wrap to the unsigned width
CastUnsigned(x, bits) == x % Pow2(bits)

\* `x as i16`, `x as i32`: wrap to the signed (two's complement) width
CastSigned(x, bits) ==
    LET m == x % Pow2(bits)
    IN  IF m >= Pow2(bits - 1) THEN m - Pow2(bits) ELSE m

\* A 32-bit word is kept as its two 16-bit halves (the model checker's integers
\* are 32-bit themselves): a u32 has hi in 0..65535, an i32 has hi in
\* -32768..32767 (two's complement), both have lo in 0..65535.
Word(hi, lo) == [hi |-> hi, lo |-> lo]

\* `x as i32` of a u32
CastI32(x) == Word(CastSigned(x.hi, Bits16), x.lo)

\* `x as u32` of an i32
CastU32(x) == Word(CastUnsigned(x.hi, Bits16), x.lo)

\* the i32 -1
MinusOne32 == Word(-1, Pow2(Bits16) - 1)

UnsignedEdge(bits) ==
    UNION { { Pow2(bits - 1) - 1 - k, Pow2(bits - 1) + k, Pow2(bits) - 1 - k }
            : k \in 0..MaxEdge }

SignedInputs(bits) ==
    UNION { { -Pow2(bits - 1) + k, Pow2(bits - 1) - 1 - k } : k \in 0..MaxEdge }
    \cup { -1 - k : k \in 0..MaxNeg }
    \cup (0..MaxSmall)

UnsignedEdge32 ==
    UNION { { Word(Pow2(Bits16 - 1) - 1, Pow2(Bits16) - 1 - k),
              Word(Pow2(Bits16 - 1), k),
              Word(Pow2(Bits16) - 1, Pow2(Bits16) - 1 - k) } : k \in 0..MaxEdge }

SignedInputs32 ==
    UNION { { Word(-Pow2(Bits16 - 1), k),
              Word(Pow2(Bits16 - 1) - 1, Pow2(Bits16) - 1 - k) } : k \in 0..MaxEdge }
    \cup { Word(-1, Pow2(Bits16) - 1 - k) : k \in 0..MaxNeg }
    \cup { Word(0, k) : k \in 0..MaxSmall }

---------------------------------------------------------------------------
(* Match<T>: Specific(T) | All.  A record of the same shape for both       *)
(* variants, so that the derived PartialEq is record equality.             *)

All == [all |-> TRUE, val |-> 0]
Specific(v) == [all |-> FALSE, val |-> v]

\* Match::matches as a one-directional refinement check: a slip a reader of
\* "an All value matches anything" would make
MatchMatchesRefinement(self, other) ==
    IF self.all THEN TRUE
    ELSE IF other.all THEN FALSE
    ELSE self.val = other.val

\* Match::matches as the derived PartialEq
MatchMatchesStructural(self, other) == self = other

\* Match::matches
MatchMatches(self, other) ==
    IF ~self.all /\ ~other.all THEN self.val = other.val ELSE TRUE

\* Match::<u16>::from_raw taking only the -1 sentinel for All
MatchU16FromRawOnlyMinusOne(raw) ==
    IF raw = -1 THEN All ELSE Specific(CastUnsigned(raw, Bits16))

\* Match::<u16>::from_raw
MatchU16FromRaw(raw) ==
    IF raw < 0 THEN All ELSE Specific(CastUnsigned(raw, Bits16))

\* Match::<u32>::from_raw
MatchU32FromRaw(raw) ==
    IF raw.hi < 0 THEN All ELSE Specific(CastU32(raw))

---------------------------------------------------------------------------
(* Pckn                                                                    *)

\* Pckn::new
PcknNew(port, channel, key, note_id) ==
    [port |-> port, channel |-> channel, key |-> key, note_id |-> note_id]

\* Pckn::match_all
PcknMatchAll == [port |-> All, channel |-> All, key |-> All, note_id |-> All]

\* Pckn::matches with the channel comparison left out
PcknMatchesNoChannel(self, other) ==
    IF ~MatchMatches(self.port, other.port) THEN FALSE
    ELSE IF ~MatchMatches(self.key, other.key) THEN FALSE
    ELSE MatchMatches(self.note_id, other.note_id)

\* Pckn::matches
PcknMatches(self, other) ==
    IF ~MatchMatches(self.port, other.port) THEN FALSE
    ELSE IF ~MatchMatches(self.channel, other.channel) THEN FALSE
    ELSE IF ~MatchMatches(self.key, other.key) THEN FALSE
    ELSE MatchMatches(self.note_id, other.note_id)

\* Pckn::from_raw
PcknFromRaw(port, channel, key, note_id) ==
    [port |-> MatchU16FromRaw(port), channel |-> MatchU16FromRaw(channel),
     key |-> MatchU16FromRaw(key), note_id |-> MatchU32FromRaw(note_id)]

\* Pckn::raw_port
PcknRawPort(self) ==
    IF self.port.all THEN -1 ELSE CastSigned(self.port.val, Bits16)

\* Pckn::raw_channel
PcknRawChannel(self) ==
    IF self.channel.all THEN -1 ELSE CastSigned(self.channel.val, Bits16)

\* Pckn::raw_key
PcknRawKey(self) ==
    IF self.key.all THEN -1 ELSE CastSigned(self.key.val, Bits16)

\* Pckn::raw_note_id
PcknRawNoteId(self) ==
    IF self.note_id.all THEN MinusOne32 ELSE CastI32(self.note_id.val)

---------------------------------------------------------------------------
(* Input sets.                                                             *)

MatchOver(S) == {All} \cup {Specific(v) : v \in S}

\* the values matching compares: small ports and channels, keys around middle C
SmallPckns ==
    { PcknNew(p, c, k, n) :
        p \in MatchOver(0..MaxSmall), c \in MatchOver(0..MaxSmall),
        k \in MatchOver({60, 61}), n \in MatchOver({Word(0, 5), Word(0, 42)}) }

\* every u16 / u32 value class: small, around the sign bit, around the maximum
U16Inputs == (0..MaxSmall) \cup UnsignedEdge(Bits16)
U32Inputs == { Word(0, k) : k \in 0..MaxSmall } \cup UnsignedEdge32

EdgePckns ==
    { PcknNew(p, c, k, n) :
        p \in MatchOver(U16Inputs), c \in MatchOver(U16Inputs),
        k \in MatchOver(U16Inputs), n \in MatchOver(U32Inputs) }

\* a call not yet made: the operation and its arguments
Pending(op, in) == [op |-> op, in |-> in, out |-> << >>, done |-> FALSE]

\* the call, made, with what it returned
Returned(c, out) == [c EXCEPT !.out = out, !.done = TRUE]

NoCall == [op |-> "none", in |-> << >>, out |-> << >>, done |-> TRUE]

\* the calls of the Match / Pckn functions a run may start with
PcknCalls ==
    { Pending("Match::matches", <<a, b>>) :
        a \in MatchOver(U16Inputs), b \in MatchOver(U16Inputs) }
    \cup { Pending("Pckn::matches", <<a, b>>) : a \in SmallPckns, b \in SmallPckns }
    \cup { Pending("Match::<u16>::from_raw", <<raw>>) : raw \in SignedInputs(Bits16) }
    \cup { Pending("Match::<u32>::from_raw", <<raw>>) : raw \in SignedInputs32 }
    \cup { Pending("Pckn::from_raw", <<port, channel, key, note_id>>) :
              port \in SignedInputs(Bits16), channel \in SignedInputs(Bits16),
              key \in SignedInputs(Bits16), note_id \in SignedInputs32 }
    \cup { Pending("Pckn::raw", <<p>>) : p \in EdgePckns }

---------------------------------------------------------------------------
(* Calls of the Match / Pckn functions: each applies the function to the   *)
(* arguments the run started with.                                         *)

CallMatchMatches ==
    /\ call.op = "Match::matches" /\ ~call.done
    /\ call' = Returned(call, MatchMatches(call.in[1], call.in[2]))
    /\ UNCHANGED <<ev, gui_table, invoked, plugin_vars>>

CallPcknMatches ==
    /\ call.op = "Pckn::matches" /\ ~call.done
    /\ call' = Returned(call, PcknMatches(call.in[1], call.in[2]))
    /\ UNCHANGED <<ev, gui_table, invoked, plugin_vars>>

CallMatchU16FromRaw ==
    /\ call.op = "Match::<u16>::from_raw" /\ ~call.done
    /\ call' = Returned(call, MatchU16FromRaw(call.in[1]))
    /\ UNCHANGED <<ev, gui_table, invoked, plugin_vars>>

CallMatchU32FromRaw ==
    /\ call.op = "Match::<u32>::from_raw" /\ ~call.done
    /\ call' = Returned(call, MatchU32FromRaw(call.in[1]))
    /\ UNCHANGED <<ev, gui_table, invoked, plugin_vars>>

CallPcknFromRaw ==
    /\ call.op = "Pckn::from_raw" /\ ~call.done
    /\ call' = Returned(call, PcknFromRaw(call.in[1], call.in[2], call.in[3],
                                          call.in[4]))
    /\ UNCHANGED <<ev, gui_table, invoked, plugin_vars>>

\* the four raw accessors of a Pckn
PcknRaw(p) == <<PcknRawPort(p), PcknRawChannel(p), PcknRawKey(p), PcknRawNoteId(p)>>

\* the raw accessors of a Pckn, Pckn::from_raw of what they return, and the
\* raw accessors of the decoded Pckn
CallPcknRaw ==
    /\ call.op = "Pckn::raw" /\ ~call.done
    /\ LET raw == PcknRaw(call.in[1])
           decoded == PcknFromRaw(raw[1], raw[2], raw[3], raw[4])
       IN  call' = Returned(call, [raw |-> raw, decoded |-> decoded,
                                   reencoded |-> PcknRaw(decoded)])
    /\ UNCHANGED <<ev, gui_table, invoked, plugin_vars>>

InitPckn ==
    /\ call \in PcknCalls
    /\ ev = << >>
    /\ gui_table = {}
    /\ invoked = << >>
    /\ PluginIdle

NextPckn ==
    \/ CallMatchMatches
    \/ CallPcknMatches
    \/ CallMatchU16FromRaw
    \/ CallMatchU32FromRaw
    \/ CallPcknFromRaw
    \/ CallPcknRaw

SpecPckn == InitPckn /\ [][NextPckn]_vars

---------------------------------------------------------------------------
(* Claims about Match and Pckn, checked under SpecPckn.                    *)

\* C1: a.matches(b) is true whenever a is All or b is All, and for
\* Specific(x), Specific(y) it is (x = y).
C1_MatchMatches ==
    (call.op = "Match::matches" /\ call.done) =>
        LET a == call.in[1]
            b == call.in[2]
        IN  /\ (a.all \/ b.all) => call.out = TRUE
            /\ (~a.all /\ ~b.all) => call.out = (a.val = b.val)

\* C1 happens: two different specific values were compared and did not match
C1_Witness ==
    /\ call.op = "Match::matches" /\ call.done
    /\ ~call.in[1].all /\ ~call.in[2].all
    /\ call.in[1].val # call.in[2].val
    /\ call.out = FALSE

\* the field-by-field result C2 speaks of
FieldsMatch(a, b) ==
    /\ a.port.all \/ b.port.all \/ a.port.val = b.port.val
    /\ a.channel.all \/ b.channel.all \/ a.channel.val = b.channel.val
    /\ a.key.all \/ b.key.all \/ a.key.val = b.key.val
    /\ a.note_id.all \/ b.note_id.all \/ a.note_id.val = b.note_id.val

\* C2: Pckn::matches(a, b) is true iff all four fields match; match_all()
\* matches every Pckn; (0,0,60,5) matches (0,0,60,All) and does not match
\* (0,1,60,All).
C2_PcknMatches ==
    (call.op = "Pckn::matches" /\ call.done) =>
        LET a == call.in[1]
            b == call.in[2]
            p == PcknNew(Specific(0), Specific(0), Specific(60), Specific(Word(0, 5)))
        IN  /\ call.out = FieldsMatch(a, b)
            /\ a = PcknMatchAll => call.out = TRUE
            /\ (a = p /\ b = PcknNew(Specific(0), Specific(0), Specific(60), All))
                    => call.out = TRUE
            /\ (a = p /\ b = PcknNew(Specific(0), Specific(1), Specific(60), All))
                    => call.out = FALSE

\* C2 happens: (0,0,60,5) was matched against (0,1,60,All) and did not match
C2_Witness ==
    /\ call.op = "Pckn::matches" /\ call.done
    /\ call.in[1] = PcknNew(Specific(0), Specific(0), Specific(60), Specific(Word(0, 5)))
    /\ call.in[2] = PcknNew(Specific(0), Specific(1), Specific(60), All)
    /\ call.out = FALSE

\* C3: from_raw yields All for every negative raw value and Specific(raw) for
\* every other one, for i16, for i32 and for each field of Pckn::from_raw; it
\* always returns.
C3_FromRawTotal ==
    /\ (call.op \in {"Match::<u16>::from_raw", "Match::<u32>::from_raw",
                      "Pckn::from_raw"} /\ ~call.done)
            => ENABLED (CallMatchU16FromRaw \/ CallMatchU32FromRaw \/ CallPcknFromRaw)
    /\ (call.op = "Match::<u16>::from_raw" /\ call.done) =>
            call.out = IF call.in[1] < 0 THEN All ELSE Specific(call.in[1])
    /\ (call.op = "Match::<u32>::from_raw" /\ call.done) =>
            call.out = IF call.in[1].hi < 0 THEN All ELSE Specific(call.in[1])
    /\ (call.op = "Pckn::from_raw" /\ call.done) =>
            /\ call.out.port = IF call.in[1] < 0 THEN All ELSE Specific(call.in[1])
            /\ call.out.channel = IF call.in[2] < 0 THEN All ELSE Specific(call.in[2])
            /\ call.out.key = IF call.in[3] < 0 THEN All ELSE Specific(call.in[3])
            /\ call.out.note_id =
                    IF call.in[4].hi < 0 THEN All ELSE Specific(call.in[4])

\* C3 happens: a negative raw value other than -1 was decoded to All
C3_Witness ==
    /\ call.op = "Match::<u16>::from_raw" /\ call.done
    /\ call.in[1] < -1
    /\ call.out = All

\* C4 as claimed: for every u16 value v, the raw accessor of Specific(v),
\* decoded with from_raw, is Specific(v) again and re-encodes to v; All
\* encodes to -1, which decodes to All.
C4_RawRoundTrip ==
    (call.op = "Pckn::raw" /\ call.done) =>
        \A i \in 1..3 :
            LET field == <<call.in[1].port, call.in[1].channel, call.in[1].key>>[i]
                back == <<call.out.decoded.port, call.out.decoded.channel,
                          call.out.decoded.key>>[i]
            IN  IF field.all
                THEN call.out.raw[i] = -1 /\ back = All
                ELSE back = field
                     /\ CastUnsigned(call.out.reencoded[i], Bits16) = field.val

\* C5 as claimed: matches is symmetric only for All/All: among the values a
\* call can be made with, some pair that is not All/All matches in one
\* direction and not in the other.
C5_SomePairAsymmetric ==
    (call.op \in {"Match::matches", "Pckn::matches"} /\ call.done) =>
        \/ \E a \in MatchOver(U16Inputs), b \in MatchOver(U16Inputs) :
                ~(a.all /\ b.all) /\ MatchMatches(a, b) # MatchMatches(b, a)
        \/ \E a \in SmallPckns, b \in SmallPckns :
                ~(a = PcknMatchAll /\ b = PcknMatchAll)
                /\ PcknMatches(a, b) # PcknMatches(b, a)

\* C5 as amended: Match::matches and Pckn::matches are symmetric for every
\* pair, a.matches(b) = b.matches(a), whether or not a side is All.
C5_MatchesSymmetric ==
    /\ (call.op = "Match::matches" /\ call.done) =>
            call.out = MatchMatches(call.in[2], call.in[1])
    /\ (call.op = "Pckn::matches" /\ call.done) =>
            call.out = PcknMatches(call.in[2], call.in[1])

\* C5 happens: a specific value was matched against All, which the claim
\* takes for a one-directional case
C5_Witness ==
    /\ call.op = "Match::matches" /\ call.done
    /\ ~call.in[1].all /\ call.in[2].all
    /\ call.out = TRUE

---------------------------------------------------------------------------
(* f64: NaN or a finite value, kept in tenths (8 stands for 0.8).          *)

NaN == [nan |-> TRUE, v |-> 0]
F64(v) == [nan |-> FALSE, v |-> v]

\* f64 ==: NaN equals nothing, itself included
F64Eq(x, y) == ~x.nan /\ ~y.nan /\ x.v = y.v

Velocities == {NaN} \cup { F64(v) : v \in 0..MaxVel }

---------------------------------------------------------------------------
(* Note events: NoteEvent<E> and the typed events impl_note! wraps it in   *)
(* (NoteOnEvent, NoteOffEvent, ...).  A typed event is [E, inner]: the     *)
(* type it was declared with and its clap_event_note record.               *)

\* the typed events the model builds (NoteChokeEvent and NoteEndEvent expand
\* the same macro)
NoteTypes == {"NoteOn", "NoteOff"}

\* the type tag of an event type in the core event space
TypeId(E) ==
    CASE E = "NoteOn" -> 0
      [] E = "NoteOff" -> 1
      [] E = "NoteChoke" -> 2
      [] E = "NoteEnd" -> 3

\* EventHeader::<E>::new(time).into_raw()
EventHeaderNew(E, time) ==
    [time |-> time, type |-> TypeId(E), flags |-> 0, space_id |-> 0]

\* NoteEvent::new
NoteEventNew(E, time, pckn, velocity) ==
    [E |-> E,
     inner |-> [header |-> EventHeaderNew(E, time),
                port_index |-> PcknRawPort(pckn),
                channel |-> PcknRawChannel(pckn),
                key |-> PcknRawKey(pckn),
                note_id |-> PcknRawNoteId(pckn),
                velocity |-> velocity]]

\* from_raw rebuilding the header for the target type instead of copying it
NoteEventFromRawRetagged(E, raw) ==
    [E |-> E, inner |-> [raw EXCEPT !.header = EventHeaderNew(E, raw.header.time)]]

\* NoteEvent::from_raw, and the typed from_raw that wraps it: the record is
\* copied as it is, the tag is not looked at
NoteEventFromRaw(E, raw) == [E |-> E, inner |-> raw]

\* NoteEvent::pckn
NoteEventPckn(self) ==
    PcknFromRaw(self.inner.port_index, self.inner.channel, self.inner.key,
                self.inner.note_id)

\* PartialEq comparing the header's time as well
NoteEventEqWithTime(self, other) ==
    /\ self.inner.key = other.inner.key
    /\ self.inner.channel = other.inner.channel
    /\ self.inner.port_index = other.inner.port_index
    /\ F64Eq(self.inner.velocity, other.inner.velocity)
    /\ self.inner.note_id = other.inner.note_id
    /\ self.inner.header.time = other.inner.header.time

\* PartialEq for NoteEvent
NoteEventEq(self, other) ==
    /\ self.inner.key = other.inner.key
    /\ self.inner.channel = other.inner.channel
    /\ self.inner.port_index = other.inner.port_index
    /\ F64Eq(self.inner.velocity, other.inner.velocity)
    /\ self.inner.note_id = other.inner.note_id

\* with_flags
WithFlags(self, flags) == [self EXCEPT !.inner.header.flags = flags]

\* port(), channel(), key(), note_id()
NotePort(self) == MatchU16FromRaw(self.inner.port_index)
NoteChannel(self) == MatchU16FromRaw(self.inner.channel)
NoteKey(self) == MatchU16FromRaw(self.inner.key)
NoteId(self) == MatchU32FromRaw(self.inner.note_id)

\* as_raw / into_raw
IntoRaw(self) == self.inner

---------------------------------------------------------------------------
(* Inputs of the note-event calls.                                         *)

Times == {0, 10}

\* EventFlags::bits(): empty, IS_LIVE
FlagBits == {0, 1}

\* ports of every value class, note ids likewise
NotePckns ==
    { PcknNew(p, c, k, n) :
        p \in MatchOver(U16Inputs), c \in MatchOver({1}), k \in MatchOver({60}),
        n \in MatchOver({Word(0, 7)} \cup UnsignedEdge32) }

\* the events an event is compared with
ComparePckns ==
    { PcknNew(p, Specific(1), Specific(60), n) :
        p \in MatchOver({0}), n \in MatchOver({Word(0, 7)}) }

\* raw records as a peer may hand them over: any tag, any space, negative
\* fields other than -1
RawNotes ==
    [header : [time : {10}, type : {0, 1, 2, 5}, flags : FlagBits, space_id : {0, 1}],
     port_index : {-1 - k : k \in 0..MaxNeg} \cup {0},
     channel : {1},
     key : {60},
     note_id : {MinusOne32, Word(0, 7)},
     velocity : Velocities]

---------------------------------------------------------------------------
(* Calls on note events.  An event is built once, by new or by from_raw,   *)
(* and then passed through with_flags, into_raw / from_raw and ==.         *)

Made(op, in, out) == [op |-> op, in |-> in, out |-> out, done |-> TRUE]

\* E::new(time, pckn, velocity)
NoteNew ==
    /\ ev = << >>
    /\ \E E \in NoteTypes, time \in Times, pckn \in NotePckns, velocity \in Velocities :
            LET e == NoteEventNew(E, time, pckn, velocity)
            IN  /\ ev' = <<e>>
                /\ call' = Made("new", <<E, time, pckn, velocity>>, e)
    /\ UNCHANGED <<gui_table, invoked, plugin_vars>>

\* E::from_raw(&raw)
NoteFromRaw ==
    /\ ev = << >>
    /\ \E E \in NoteTypes, raw \in RawNotes :
            LET e == NoteEventFromRaw(E, raw)
            IN  /\ ev' = <<e>>
                /\ call' = Made("from_raw", <<E, raw>>, e)
    /\ UNCHANGED <<gui_table, invoked, plugin_vars>>

\* ev.with_flags(flags)
NoteWithFlags ==
    /\ ev # << >>
    /\ \E flags \in FlagBits :
            LET e == WithFlags(ev[1], flags)
            IN  /\ ev' = <<e>>
                /\ call' = Made("with_flags", <<ev[1], flags>>, e)
    /\ UNCHANGED <<gui_table, invoked, plugin_vars>>

\* E::from_raw(&ev.into_raw())
NoteRoundTrip ==
    /\ ev # << >>
    /\ LET e == NoteEventFromRaw(ev[1].E, IntoRaw(ev[1]))
       IN  /\ ev' = <<e>>
           /\ call' = Made("into_raw/from_raw", <<ev[1]>>, e)
    /\ UNCHANGED <<gui_table, invoked, plugin_vars>>

\* ev == E::new(time, pckn, velocity)
NoteCompare ==
    /\ ev # << >>
    /\ \E time \in Times, pckn \in ComparePckns, velocity \in Velocities :
            LET other == NoteEventNew(ev[1].E, time, pckn, velocity)
            IN  call' = Made("eq", <<ev[1], other, <<time, pckn, velocity>>>>,
                             NoteEventEq(ev[1], other))
    /\ UNCHANGED <<ev, gui_table, invoked, plugin_vars>>

InitNote ==
    /\ call = NoCall
    /\ ev = << >>
    /\ gui_table = {}
    /\ invoked = << >>
    /\ PluginIdle

NextNote ==
    \/ NoteNew
    \/ NoteFromRaw
    \/ NoteWithFlags
    \/ NoteRoundTrip
    \/ NoteCompare

SpecNote == InitNote /\ [][NextNote]_vars

---------------------------------------------------------------------------
(* PluginGui: the host's wrapper of the plugin's clap_plugin_gui table.    *)
(* gui_table holds the operations whose function pointer is Some.  A call  *)
(* of a wrapper reads its pointer; when set, the plugin's function is      *)
(* invoked and answers whatever the plugin pleases.                        *)

GuiOps ==
    {"is_api_supported", "get_preferred_api", "create", "destroy", "set_scale",
     "get_size", "can_resize", "get_resize_hints", "adjust_size", "set_size",
     "set_parent", "set_transient", "suggest_title", "show", "hide"}

\* tables with at most MaxUnset pointers unset
MaxUnset == 2

GuiTables == { t \in SUBSET GuiOps : Cardinality(GuiOps \ t) <= MaxUnset }

\* what a wrapper returns
RetBool(b) == [kind |-> "bool", val |-> <<b>>]
RetNone == [kind |-> "None", val |-> << >>]
RetSome(x) == [kind |-> "Some", val |-> <<x>>]
RetOk == [kind |-> "Ok", val |-> << >>]
RetErr(e) == [kind |-> "Err", val |-> <<e>>]
RetUnit == [kind |-> "unit", val |-> << >>]

\* u32::MAX
U32Max == Word(Pow2(Bits16) - 1, Pow2(Bits16) - 1)

\* a null `*const c_char`
NullPtr == "null"

GuiConfigurations == [api_type : {"x11"}, is_floating : BOOLEAN]
GuiSizes == [width : {0, 640}, height : {0, 480}]
GuiScales == {F64(10), F64(20)}
AspectRatios == {U32Max, Word(0, 4)}

\* the invocation of a plugin function: its name and what it answered
Invocation(fn, answer) == <<[fn |-> fn, answer |-> answer]>>

\* is_api_supported
IsApiSupportedResult(present, answer) ==
    IF present THEN RetBool(answer) ELSE RetBool(FALSE)

\* get_preferred_api: api_type starts null, is_floating true
GetPreferredApiResult(present, answer) ==
    IF ~present THEN RetNone
    ELSE IF answer.success /\ answer.api_type # NullPtr
         THEN RetSome([api_type |-> answer.api_type, is_floating |-> answer.is_floating])
         ELSE RetNone

\* create
CreateResult(present, answer) ==
    IF ~present THEN RetErr("CreateError")
    ELSE IF answer THEN RetOk ELSE RetErr("CreateError")

\* set_scale
SetScaleResult(present, answer) ==
    IF ~present THEN RetErr("CreateError")
    ELSE IF answer THEN RetOk ELSE RetErr("SetScaleError")

\* get_size answering the zeroed size when the pointer is unset
GetSizeResultZeroed(present, answer) ==
    IF ~present THEN RetSome([width |-> 0, height |-> 0])
    ELSE IF answer.success /\ answer.width # 0 /\ answer.height # 0
         THEN RetSome([width |-> answer.width, height |-> answer.height])
         ELSE RetNone

\* get_size: width and height start 0
GetSizeResult(present, answer) ==
    IF ~present THEN RetNone
    ELSE IF answer.success /\ answer.width # 0 /\ answer.height # 0
         THEN RetSome([width |-> answer.width, height |-> answer.height])
         ELSE RetNone

\* can_resize
CanResizeResult(present, answer) ==
    IF present THEN RetBool(answer) ELSE RetBool(FALSE)

\* get_resize_hints: both aspect ratios start u32::MAX
GetResizeHintsResult(present, answer) ==
    IF ~present THEN RetNone
    ELSE IF /\ answer.success
            /\ answer.aspect_ratio_height # U32Max
            /\ answer.aspect_ratio_width # U32Max
         THEN RetSome([aspect_ratio_width |-> answer.aspect_ratio_width,
                       aspect_ratio_height |-> answer.aspect_ratio_height])
         ELSE RetNone

\* adjust_size
AdjustSizeResult(present, answer) ==
    IF ~present THEN RetNone
    ELSE IF answer.success
         THEN RetSome([width |-> answer.width, height |-> answer.height])
         ELSE RetNone

\* set_size
SetSizeResult(present, answer) ==
    IF ~present THEN RetErr("SetScaleError")
    ELSE IF answer THEN RetOk ELSE RetErr("SetScaleError")

\* set_parent
SetParentResult(present, answer) ==
    IF ~present THEN RetErr("SetParentError")
    ELSE IF answer THEN RetOk ELSE RetErr("SetParentError")

\* set_transient
SetTransientResult(present, answer) ==
    IF ~present THEN RetErr("SetParentError")
    ELSE IF answer THEN RetOk ELSE RetErr("SetParentError")

\* show
ShowResult(present, answer) ==
    IF ~present THEN RetErr("ShowError")
    ELSE IF answer THEN RetOk ELSE RetErr("ShowError")

\* hide
HideResult(present, answer) ==
    IF ~present THEN RetErr("ShowError")
    ELSE IF answer THEN RetOk ELSE RetErr("ShowError")

\* the plugin function is invoked exactly when its pointer is set
Invoke(op, answer) ==
    invoked' = IF op \in gui_table THEN Invocation(op, answer) ELSE << >>

GuiIsApiSupported ==
    \E configuration \in GuiConfigurations, answer \in BOOLEAN :
        /\ call' = Made("is_api_supported", <<configuration>>,
                        IsApiSupportedResult("is_api_supported" \in gui_table, answer))
        /\ Invoke("is_api_supported", answer)
        /\ UNCHANGED <<ev, gui_table, plugin_vars>>

GuiGetPreferredApi ==
    \E answer \in [success : BOOLEAN, api_type : {NullPtr, "x11"},
                    is_floating : BOOLEAN] :
        /\ call' = Made("get_preferred_api", << >>,
                        GetPreferredApiResult("get_preferred_api" \in gui_table, answer))
        /\ Invoke("get_preferred_api", answer)
        /\ UNCHANGED <<ev, gui_table, plugin_vars>>

GuiCreate ==
    \E configuration \in GuiConfigurations, answer \in BOOLEAN :
        /\ call' = Made("create", <<configuration>>,
                        CreateResult("create" \in gui_table, answer))
        /\ Invoke("create", answer)
        /\ UNCHANGED <<ev, gui_table, plugin_vars>>

GuiDestroy ==
    /\ call' = Made("destroy", << >>, RetUnit)
    /\ Invoke("destroy", << >>)
    /\ UNCHANGED <<ev, gui_table, plugin_vars>>

GuiSetScale ==
    \E scale \in GuiScales, answer \in BOOLEAN :
        /\ call' = Made("set_scale", <<scale>>,
                        SetScaleResult("set_scale" \in gui_table, answer))
        /\ Invoke("set_scale", answer)
        /\ UNCHANGED <<ev, gui_table, plugin_vars>>

GuiGetSize ==
    \E answer \in [success : BOOLEAN, width : {0, 640}, height : {0, 480}] :
        /\ call' = Made("get_size", << >>,
                        GetSizeResult("get_size" \in gui_table, answer))
        /\ Invoke("get_size", answer)
        /\ UNCHANGED <<ev, gui_table, plugin_vars>>

GuiCanResize ==
    \E answer \in BOOLEAN :
        /\ call' = Made("can_resize", << >>,
                        CanResizeResult("can_resize" \in gui_table, answer))
        /\ Invoke("can_resize", answer)
        /\ UNCHANGED <<ev, gui_table, plugin_vars>>

GuiGetResizeHints ==
    \E answer \in [success : BOOLEAN, aspect_ratio_width : AspectRatios,
                    aspect_ratio_height : AspectRatios] :
        /\ call' = Made("get_resize_hints", << >>,
                        GetResizeHintsResult("get_resize_hints" \in gui_table, answer))
        /\ Invoke("get_resize_hints", answer)
        /\ UNCHANGED <<ev, gui_table, plugin_vars>>

GuiAdjustSize ==
    \E size \in {[width |-> 640, height |-> 480]},
       answer \in [success : BOOLEAN, width : {0, 640}, height : {0, 480}] :
        /\ call' = Made("adjust_size", <<size>>,
                        AdjustSizeResult("adjust_size" \in gui_table, answer))
        /\ Invoke("adjust_size", answer)
        /\ UNCHANGED <<ev, gui_table, plugin_vars>>

GuiSetSize ==
    \E size \in {[width |-> 640, height |-> 480], [width |-> 0, height |-> 0]},
       answer \in BOOLEAN :
        /\ call' = Made("set_size", <<size>>,
                        SetSizeResult("set_size" \in gui_table, answer))
        /\ Invoke("set_size", answer)
        /\ UNCHANGED <<ev, gui_table, plugin_vars>>

GuiSetParent ==
    \E answer \in BOOLEAN :
        /\ call' = Made("set_parent", <<"window">>,
                        SetParentResult("set_parent" \in gui_table, answer))
        /\ Invoke("set_parent", answer)
        /\ UNCHANGED <<ev, gui_table, plugin_vars>>

GuiSetTransient ==
    \E answer \in BOOLEAN :
        /\ call' = Made("set_transient", <<"window">>,
                        SetTransientResult("set_transient" \in gui_table, answer))
        /\ Invoke("set_transient", answer)
        /\ UNCHANGED <<ev, gui_table, plugin_vars>>

GuiSuggestTitle ==
    /\ call' = Made("suggest_title", <<"title">>, RetUnit)
    /\ Invoke("suggest_title", << >>)
    /\ UNCHANGED <<ev, gui_table, plugin_vars>>

GuiShow ==
    \E answer \in BOOLEAN :
        /\ call' = Made("show", << >>, ShowResult("show" \in gui_table, answer))
        /\ Invoke("show", answer)
        /\ UNCHANGED <<ev, gui_table, plugin_vars>>

GuiHide ==
    \E answer \in BOOLEAN :
        /\ call' = Made("hide", << >>, HideResult("hide" \in gui_table, answer))
        /\ Invoke("hide", answer)
        /\ UNCHANGED <<ev, gui_table, plugin_vars>>

InitGui ==
    /\ call = NoCall
    /\ ev = << >>
    /\ gui_table \in GuiTables
    /\ invoked = << >>
    /\ PluginIdle

NextGui ==
    \/ GuiIsApiSupported
    \/ GuiGetPreferredApi
    \/ GuiCreate
    \/ GuiDestroy
    \/ GuiSetScale
    \/ GuiGetSize
    \/ GuiCanResize
    \/ GuiGetResizeHints
    \/ GuiAdjustSize
    \/ GuiSetSize
    \/ GuiSetParent
    \/ GuiSetTransient
    \/ GuiSuggestTitle
    \/ GuiShow
    \/ GuiHide

SpecGui == InitGui /\ [][NextGui]_vars

---------------------------------------------------------------------------
(* Claims about note events, checked under SpecNote.                       *)

\* what a validating from_raw would return for a record of another type
TypeMismatch == [error |-> "TypeMismatch"]

\* C6 as claimed: from_raw checks the record's header tag against the target
\* event type and fails with TypeMismatch when the tag is another variant's.
C6_FromRawValidatesTag ==
    (call.op = "from_raw" /\ call.in[2].header.type # TypeId(call.in[1])) =>
        call.out = TypeMismatch

\* the payload of two records is the same, field by field
SamePayload(a, b) ==
    /\ a.port_index = b.port_index
    /\ a.channel = b.channel
    /\ a.key = b.key
    /\ a.note_id = b.note_id
    /\ a.velocity = b.velocity

\* C7 as claimed: two note events are equal iff port_index, channel, key,
\* note_id and velocity are the same; e.with_flags(f) == e for any event e;
\* new(t1, p, v) == new(t2, p, v).
C7_EqIsSamePayload ==
    /\ call.op = "eq" => call.out = SamePayload(call.in[1].inner, call.in[2].inner)
    /\ call.op = "with_flags" => NoteEventEq(call.out, call.in[1])
    /\ call.op = "eq" =>
            \A t1 \in Times :
                call.in[1] = NoteEventNew(call.in[1].E, t1, call.in[3][2], call.in[3][3])
                    => call.out = TRUE

\* C7 as amended: two note events are equal iff port_index, channel, key and
\* note_id are the same and the velocities are the same and not NaN; time and
\* flags never affect the result; e.with_flags(f) == e and
\* new(t1, p, v) == new(t2, p, v) hold exactly when the velocity is not NaN.
C7_EqIgnoresHeader ==
    /\ call.op = "eq" =>
            /\ call.out = (/\ SamePayload(call.in[1].inner, call.in[2].inner)
                           /\ ~call.in[1].inner.velocity.nan)
            /\ \A t \in Times, f \in FlagBits :
                    NoteEventEq([call.in[1] EXCEPT !.inner.header.time = t,
                                                   !.inner.header.flags = f],
                                call.in[2]) = call.out
            /\ \A t1 \in Times :
                    call.in[1] = NoteEventNew(call.in[1].E, t1, call.in[3][2],
                                              call.in[3][3])
                        => call.out = ~call.in[3][3].nan
    /\ call.op = "with_flags" =>
            NoteEventEq(call.out, call.in[1]) = ~call.in[1].inner.velocity.nan

\* C7 happens: an event built at time 0 was compared with one built at time
\* 10 from the same pckn and velocity, and they are equal
C7_Witness ==
    /\ call.op = "eq"
    /\ call.in[1].inner.header.time = 0
    /\ call.in[3][1] = 10
    /\ call.in[1] = NoteEventNew(call.in[1].E, 0, call.in[3][2], call.in[3][3])
    /\ call.out = TRUE

\* C8 as claimed: from_raw(&e.into_raw()) is equal to e and has every raw
\* field of e.
C8_RoundTripEqual ==
    call.op = "into_raw/from_raw" =>
        /\ NoteEventEq(call.out, call.in[1])
        /\ call.out.inner = call.in[1].inner

\* C8 as amended: from_raw(&e.into_raw()) has every raw field of e (header
\* time, type, flags, space_id, port_index, channel, key, note_id, velocity)
\* and the type of e, and is equal to e exactly when e's velocity is not NaN.
C8_RoundTripSameRecord ==
    call.op = "into_raw/from_raw" =>
        /\ call.out.inner = call.in[1].inner
        /\ call.out.E = call.in[1].E
        /\ NoteEventEq(call.out, call.in[1]) = ~call.in[1].inner.velocity.nan

\* C8 happens: an event whose flags were set went through into_raw and
\* from_raw
C8_Witness ==
    /\ call.op = "into_raw/from_raw"
    /\ call.in[1].inner.header.flags = 1
    /\ call.in[1].inner.header.time = 10
    /\ call.out.inner.header.flags = 1
    /\ NoteEventEq(call.out, call.in[1])

\* C9 as claimed: an event built with new(time, pckn, velocity) reads back
\* the Match values of that pckn from port(), channel(), key(), note_id() and
\* pckn(), and pckn() is Pckn { port(), channel(), key(), note_id() }.
\* Stated for note ids of the documented range 0..=i32::MAX, any u16 port.
C9_NewReadsBack ==
    (/\ call.op = "new"
     /\ call.in[3].note_id.all \/ call.in[3].note_id.val.hi < Pow2(Bits16 - 1)) =>
        LET e == call.out
            pckn == call.in[3]
        IN  /\ NotePort(e) = pckn.port
            /\ NoteChannel(e) = pckn.channel
            /\ NoteKey(e) = pckn.key
            /\ NoteId(e) = pckn.note_id
            /\ NoteEventPckn(e) = pckn
            /\ NoteEventPckn(e) = PcknNew(NotePort(e), NoteChannel(e), NoteKey(e),
                                          NoteId(e))

---------------------------------------------------------------------------
(* Claims about PluginGui, checked under SpecGui.                          *)

\* C10: with the GUI table present and an operation's pointer unset, the
\* wrapper returns the neutral default and invokes no plugin function:
\* is_api_supported and can_resize return false; get_preferred_api, get_size,
\* get_resize_hints and adjust_size return None; destroy and suggest_title
\* do nothing.
C10_UnsetPointerNeutral ==
    (call.op \in GuiOps /\ call.op \notin gui_table) =>
        /\ call.op \in {"is_api_supported", "can_resize"} =>
                call.out = RetBool(FALSE) /\ invoked = << >>
        /\ call.op \in {"get_preferred_api", "get_size", "get_resize_hints",
                         "adjust_size"} =>
                call.out = RetNone /\ invoked = << >>
        /\ call.op \in {"destroy", "suggest_title"} =>
                call.out = RetUnit /\ invoked = << >>

\* C10 happens: get_size was called on a table that has other pointers set
\* and get_size unset
C10_Witness ==
    /\ call.op = "get_size"
    /\ "get_size" \notin gui_table
    /\ "can_resize" \in gui_table
    /\ call.out = RetNone
    /\ invoked = << >>

\* the seven operations that return Result<(), GuiError>
GuiFallibleOps ==
    {"create", "set_scale", "set_size", "set_parent", "set_transient", "show",
     "hide"}

\* what a fallible operation returns for a pointer that is present or not and
\* a plugin that answers `answer`
GuiFallibleResult(op, present, answer) ==
    CASE op = "create" -> CreateResult(present, answer)
      [] op = "set_scale" -> SetScaleResult(present, answer)
      [] op = "set_size" -> SetSizeResult(present, answer)
      [] op = "set_parent" -> SetParentResult(present, answer)
      [] op = "set_transient" -> SetTransientResult(present, answer)
      [] op = "show" -> ShowResult(present, answer)
      [] op = "hide" -> HideResult(present, answer)

\* C11 as claimed: a fallible operation called with its pointer unset returns
\* an outcome that is not an error and that differs from what the same
\* operation returns when the pointer is set and the plugin answers false.
C11_UnsetDistinctFromRejected ==
    (call.op \in GuiFallibleOps /\ call.op \notin gui_table) =>
        /\ call.out.kind # "Err"
        /\ call.out # GuiFallibleResult(call.op, TRUE, FALSE)

\* C12 as claimed: the error kind a fallible operation returns is returned by
\* no other operation, whether that one fails on an unset pointer or on the
\* plugin's refusal.
C12_ErrorKindPerOperation ==
    (call.op \in GuiFallibleOps /\ call.out.kind = "Err") =>
        \A other \in GuiFallibleOps \ {call.op}, present \in BOOLEAN :
            GuiFallibleResult(other, present, FALSE) # call.out

---------------------------------------------------------------------------
(* HostGui: the trampolines the host places in its clap_host_gui table.    *)
(* The plugin calls a trampoline with the raw host pointer; the trampoline *)
(* dispatches through HostWrapper::handle to the HostGuiImpl method of the *)
(* host's shared handler, which answers Ok, answers Err or panics.         *)

\* the raw host pointer a plugin hands back: the host's own, or a null one
HostPtrs == {"host", NullPtr}

\* how a HostGuiImpl method returning Result<(), GuiError> can end
MethodOutcomes == {"Ok", "Err", "panic"}

\* how a HostGuiImpl method returning () can end
UnitOutcomes == {"Ok", "panic"}

\* what the closure handed to HostWrapper::handle evaluates to
ClosureOk(x) == [kind |-> "Ok", val |-> <<x>>]
ClosurePanic == [kind |-> "panic", val |-> << >>]

\* HostWrapper::handle: recovers the wrapper from the raw pointer and runs
\* the closure, catching a panic; Some(value) when the pointer is valid and
\* the closure returns Ok(value), None otherwise
HostWrapperHandle(host, handler) ==
    IF host = NullPtr THEN RetNone
    ELSE IF handler.kind = "Ok" THEN RetSome(handler.val[1])
    ELSE RetNone

\* Result::is_ok of what the method answered, or the method's panic
IsOkClosure(outcome) ==
    IF outcome = "panic" THEN ClosurePanic ELSE ClosureOk(outcome = "Ok")

\* Option::unwrap_or
UnwrapOr(option, default) ==
    IF option.kind = "Some" THEN option.val[1] ELSE default

\* request_resize answering true when the dispatch fails
RequestResizeUnwrapOrTrue(host, size, outcome) ==
    RetBool(UnwrapOr(HostWrapperHandle(host, IsOkClosure(outcome)), TRUE))

\* request_resize
RequestResize(host, size, outcome) ==
    RetBool(UnwrapOr(HostWrapperHandle(host, IsOkClosure(outcome)), FALSE))

\* request_show
RequestShow(host, outcome) ==
    RetBool(UnwrapOr(HostWrapperHandle(host, IsOkClosure(outcome)), FALSE))

\* request_hide
RequestHide(host, outcome) ==
    RetBool(UnwrapOr(HostWrapperHandle(host, IsOkClosure(outcome)), FALSE))

\* the HostGuiImpl method runs exactly when the host pointer is valid
InvokeHost(host, method, outcome) ==
    invoked' = IF host # NullPtr THEN Invocation(method, outcome) ELSE << >>

\* the sizes a plugin asks for
RequestedSizes ==
    [width : {0, 1, 640, 1280, 65535}, height : {0, 1, 480, 960, 65535}]

HostResizeHintsChanged ==
    \E host \in HostPtrs, outcome \in UnitOutcomes :
        /\ call' = Made("resize_hints_changed", <<host>>, RetUnit)
        /\ InvokeHost(host, "resize_hints_changed", outcome)
        /\ UNCHANGED <<ev, gui_table, plugin_vars>>

HostRequestResize ==
    \E host \in HostPtrs, size \in RequestedSizes, outcome \in MethodOutcomes :
        /\ call' = Made("request_resize", <<host, size>>,
                        RequestResize(host, size, outcome))
        /\ InvokeHost(host, "request_resize", outcome)
        /\ UNCHANGED <<ev, gui_table, plugin_vars>>

HostRequestShow ==
    \E host \in HostPtrs, outcome \in MethodOutcomes :
        /\ call' = Made("request_show", <<host>>, RequestShow(host, outcome))
        /\ InvokeHost(host, "request_show", outcome)
        /\ UNCHANGED <<ev, gui_table, plugin_vars>>

HostRequestHide ==
    \E host \in HostPtrs, outcome \in MethodOutcomes :
        /\ call' = Made("request_hide", <<host>>, RequestHide(host, outcome))
        /\ InvokeHost(host, "request_hide", outcome)
        /\ UNCHANGED <<ev, gui_table, plugin_vars>>

HostClosed ==
    \E host \in HostPtrs, was_destroyed \in BOOLEAN, outcome \in UnitOutcomes :
        /\ call' = Made("closed", <<host, was_destroyed>>, RetUnit)
        /\ InvokeHost(host, "closed", outcome)
        /\ UNCHANGED <<ev, gui_table, plugin_vars>>

InitHostGui ==
    /\ call = NoCall
    /\ ev = << >>
    /\ gui_table = GuiOps
    /\ invoked = << >>
    /\ PluginIdle

NextHostGui ==
    \/ HostResizeHintsChanged
    \/ HostRequestResize
    \/ HostRequestShow
    \/ HostRequestHide
    \/ HostClosed

SpecHostGui == InitHostGui /\ [][NextHostGui]_vars

---------------------------------------------------------------------------
(* Claims about the HostGui trampolines, checked under SpecHostGui.        *)

HostRequestOps == {"request_resize", "request_show", "request_hide"}

\* C13: request_resize, request_show and request_hide always return a bool;
\* they return true exactly when the host pointer dispatched to the
\* HostGuiImpl method and the method returned Ok, and false when the method
\* returned Err, when it panicked and when the dispatch did not reach it.
C13_TrampolineReturnsBool ==
    call.op \in HostRequestOps =>
        /\ call.out \in {RetBool(TRUE), RetBool(FALSE)}
        /\ call.out = RetBool(TRUE) <=>
                (/\ call.in[1] # NullPtr
                 /\ invoked = Invocation(call.op, "Ok"))
        /\ (invoked = << >> \/ invoked[1].answer \in {"Err", "panic"}) =>
                call.out = RetBool(FALSE)

\* C13 happens: request_resize reached a method that panicked and returned
\* false, not an unwind
C13_Witness ==
    /\ call.op = "request_resize"
    /\ call.in[1] = "host"
    /\ invoked = Invocation("request_resize", "panic")
    /\ call.out = RetBool(FALSE)

---------------------------------------------------------------------------
(* Log: the plugin's wrapper of the host's clap_host_log table.  A message *)
(* is a sequence of bytes; a C string is a sequence of bytes that ends     *)
(* with the first 0 in it.                                                 *)

\* the longest message
MaxMsgLen == 2

\* the bytes of a message: NUL, 'a', 'b'
MsgBytes == {0, 97, 98}

Messages == UNION { [1..n -> MsgBytes] : n \in 0..MaxMsgLen }

LogSeverities ==
    {"Debug", "Info", "Warning", "Error", "Fatal", "HostMisbehaving",
     "PluginMisbehaving"}

\* LogSeverity::to_raw: the discriminant
LogSeverityToRaw(severity) ==
    CASE severity = "Debug" -> 0
      [] severity = "Info" -> 1
      [] severity = "Warning" -> 2
      [] severity = "Error" -> 3
      [] severity = "Fatal" -> 4
      [] severity = "HostMisbehaving" -> 5
      [] severity = "PluginMisbehaving" -> 6

\* a Result carrying a value
RetOkOf(x) == [kind |-> "Ok", val |-> <<x>>]

\* CString::new: an error for an interior 0 byte, else the bytes and a
\* terminating 0
CStringNew(bytes) ==
    IF \E i \in 1..Len(bytes) : bytes[i] = 0
    THEN RetErr("NulError")
    ELSE RetOkOf(Append(bytes, 0))

\* a value that implements Display: its fmt writes its text or fails
Displays ==
    [fmt : {"Ok"}, text : Messages] \cup {[fmt |-> "Err", text |-> << >>]}

\* write!(buf, "{}", message) into an empty String
WriteDisplay(message) ==
    IF message.fmt = "Ok" THEN RetOkOf(message.text) ELSE RetErr("fmt::Error")

\* Log::log: one call of the host's log function
LogLog(log_severity, message) ==
    Invocation("log", [severity |-> LogSeverityToRaw(log_severity),
                       message |-> message])

\* what a logging call returns, and the calls of the host's log it made
LogDone(out, calls) == [out |-> out, calls |-> calls]

\* log_str cutting the message at its first 0 byte
LogStrTruncating(log_severity, message) ==
    LET nuls == { i \in 1..Len(message) : message[i] = 0 }
        cut == IF nuls = {} THEN message
               ELSE SubSeq(message, 1,
                           (CHOOSE i \in nuls : \A j \in nuls : i <= j) - 1)
    IN  LogDone(RetOk, LogLog(log_severity, Append(cut, 0)))

\* Log::log_str
LogStr(log_severity, message) ==
    LET c == CStringNew(message)
    IN  IF c.kind = "Err" THEN LogDone(RetErr("LogError"), << >>)
        ELSE LogDone(RetOk, LogLog(log_severity, c.val[1]))

\* Log::log_display
LogDisplay(log_severity, message) ==
    LET buf == WriteDisplay(message)
    IN  IF buf.kind = "Err" THEN LogDone(RetErr("LogError"), << >>)
        ELSE LET c == CStringNew(buf.val[1])
             IN  IF c.kind = "Err" THEN LogDone(RetErr("LogError"), << >>)
                 ELSE LogDone(RetOk, LogLog(log_severity, c.val[1]))

\* the C strings of up to MaxMsgLen bytes and the terminating 0
CStrs == { Append(m, 0) : m \in { x \in Messages : \A i \in 1..Len(x) : x[i] # 0 } }

CallLog ==
    \E log_severity \in LogSeverities, message \in CStrs :
        /\ call' = Made("log", <<log_severity, message>>, RetUnit)
        /\ invoked' = LogLog(log_severity, message)
        /\ UNCHANGED <<ev, gui_table, plugin_vars>>

CallLogStr ==
    \E log_severity \in LogSeverities, message \in Messages :
        LET done == LogStr(log_severity, message)
        IN  /\ call' = Made("log_str", <<log_severity, message>>, done.out)
            /\ invoked' = done.calls
            /\ UNCHANGED <<ev, gui_table, plugin_vars>>

CallLogDisplay ==
    \E log_severity \in LogSeverities, message \in Displays :
        LET done == LogDisplay(log_severity, message)
        IN  /\ call' = Made("log_display", <<log_severity, message>>, done.out)
            /\ invoked' = done.calls
            /\ UNCHANGED <<ev, gui_table, plugin_vars>>

InitLog ==
    /\ call = NoCall
    /\ ev = << >>
    /\ gui_table = GuiOps
    /\ invoked = << >>
    /\ PluginIdle

NextLog ==
    \/ CallLog
    \/ CallLogStr
    \/ CallLogDisplay

SpecLog == InitLog /\ [][NextLog]_vars

---------------------------------------------------------------------------
(* Claims about Log, checked under SpecLog.                                *)

\* the text the host reads from a C string: the bytes before its first 0
CStrText(c) ==
    LET nuls == { i \in 1..Len(c) : c[i] = 0 }
    IN  SubSeq(c, 1, (CHOOSE i \in nuls : \A j \in nuls : i <= j) - 1)

\* the message of a logging call cannot be made a C string: it has a 0 byte,
\* or it is a Display value whose formatting fails
Unconvertible(c) ==
    IF c.op = "log_str" THEN \E i \in 1..Len(c.in[2]) : c.in[2][i] = 0
    ELSE \/ c.in[2].fmt = "Err"
         \/ \E i \in 1..Len(c.in[2].text) : c.in[2].text[i] = 0

\* the text a logging call was given
GivenText(c) == IF c.op = "log_str" THEN c.in[2] ELSE c.in[2].text

\* C14: log_str and log_display return a LogError and make no call of the
\* host's log function when the message cannot be made a null-terminated
\* string; otherwise they call the host's log function exactly once, with the
\* raw value of the given severity and a string the host reads back as the
\* whole message, and return Ok.
C14_LogWholeMessageOrError ==
    call.op \in {"log_str", "log_display"} =>
        IF Unconvertible(call)
        THEN call.out = RetErr("LogError") /\ invoked = << >>
        ELSE /\ call.out = RetOk
             /\ Len(invoked) = 1
             /\ invoked[1].fn = "log"
             /\ invoked[1].answer.severity = LogSeverityToRaw(call.in[1])
             /\ CStrText(invoked[1].answer.message) = GivenText(call)

\* C14 happens: log_str was given the bytes 'a', NUL and returned the error
\* without a call of the host
C14_Witness ==
    /\ call.op = "log_str"
    /\ call.in[2] = <<97, 0>>
    /\ call.out = RetErr("LogError")
    /\ invoked = << >>

---------------------------------------------------------------------------
(* Events as the gain example handles them, and event lists.  An event has *)
(* a time and a type; event() is the typed payload of a core event and     *)
(* None for a record whose type is not recognised.                         *)

\* Event::new(time, event)
EventNew(time, type, payload) ==
    [time |-> time, type |-> type, payload |-> payload]

\* NoteEvent::new(port_index, key, channel, velocity), as the gain example
\* calls it
GainNoteEvent(port_index, key, channel, velocity) ==
    [port_index |-> port_index, key |-> key, channel |-> channel,
     velocity |-> velocity]

\* a parameter value event: param_id() and value()
ParamValueEvent(param_id, value) == [param_id |-> param_id, value |-> value]

\* the payload of a record of another event space, opaque bytes
OpaquePayload == [bytes |-> <<1, 2>>]

\* Event::event: Some(typed event) for a core type, None otherwise
EventEvent(e) ==
    IF e.type \in {"NoteOn", "NoteOff", "ParamValue"}
    THEN RetSome([type |-> e.type, payload |-> e.payload])
    ELSE RetNone

\* EventList::push keeping the list ordered by time
EventListAppendByTime(list, e) ==
    LET before == SelectSeq(list, LAMBDA x : x.time <= e.time)
        after == SelectSeq(list, LAMBDA x : x.time > e.time)
    IN  before \o <<e>> \o after

\* appending one event to an event list: it goes to the end
EventListAppend(list, e) == Append(list, e)

\* EventList::iter: the records, first to last
EventListIter(list) == list

\* the longest event list
MaxListLen == 3

\* events of mixed variants, at an early and a late time
ListEvents ==
    { EventNew(time, "NoteOn", GainNoteEvent(0, 60, 1, F64(8))) : time \in Times }
    \cup { EventNew(time, "ParamValue", ParamValueEvent(0, F64(25))) : time \in Times }
    \cup { EventNew(time, "Unknown", OpaquePayload) : time \in Times }

\* `input` keeps what was submitted, in the order of submission; `output` is
\* the event list
ListAppend ==
    \E e \in ListEvents :
        /\ Len(output) < MaxListLen
        /\ output' = EventListAppend(output, e)
        /\ input' = Append(input, e)
        /\ call' = Made("append", <<e>>, RetUnit)
        /\ UNCHANGED <<ev, gui_table, invoked, rusting, instance>>

ListIterate ==
    /\ call' = Made("iter", << >>, EventListIter(output))
    /\ UNCHANGED <<ev, gui_table, invoked, plugin_vars>>

InitList ==
    /\ call = NoCall
    /\ ev = << >>
    /\ gui_table = GuiOps
    /\ invoked = << >>
    /\ PluginIdle

NextList ==
    \/ ListAppend
    \/ ListIterate

SpecList == InitList /\ [][NextList]_vars

---------------------------------------------------------------------------
(* Claims about event lists, checked under SpecList.                       *)

\* C15: iterating an event list to which N events were appended yields N
\* records, the i-th being the i-th event appended, whatever their variants
\* and times and whether or not an event was appended twice.
C15_IterationInSubmissionOrder ==
    call.op = "iter" =>
        /\ Len(call.out) = Len(input)
        /\ \A i \in 1..Len(input) : call.out[i] = input[i]

\* C15 happens: a late event, an early one and the same early one again, of
\* two variants, were appended and iterated in that order
C15_Witness ==
    /\ call.op = "iter"
    /\ Len(call.out) = 3
    /\ call.out[1].time = 10 /\ call.out[1].type = "ParamValue"
    /\ call.out[2].time = 0 /\ call.out[2].type = "NoteOn"
    /\ call.out[3] = call.out[2]

---------------------------------------------------------------------------
(* Plugin instances: the host instantiates a plugin of a bundle, which     *)
(* runs the plugin's PluginMainThread::new; with an instance it activates  *)
(* and processes, and a live plugin may call the host back.  `invoked`     *)
(* keeps every plugin and host callback invoked, with the plugin it        *)
(* belongs to.                                                             *)

Plugins == {"DivaPluginStub", "GainPlugin"}

\* PluginMainThread::new of each plugin
MainThreadNew(plugin) ==
    IF plugin = "DivaPluginStub" THEN RetErr("AlreadyActivated")
    ELSE RetOkOf([rusting |-> 0])

\* PluginInstance::new handing out an instance whatever the plugin answered
PluginInstanceNewUnchecked(plugin) ==
    RetOkOf([plugin |-> plugin, active |-> FALSE])

\* PluginInstance::new: the plugin's failure to construct is returned to the
\* caller as an error, and there is no instance
PluginInstanceNew(plugin) ==
    IF MainThreadNew(plugin).kind = "Err" THEN RetErr("InstantiationFailed")
    ELSE RetOkOf([plugin |-> plugin, active |-> FALSE])

\* the callbacks of HostShared
HostCallbacks == {"request_restart", "request_process", "request_callback"}

\* how many callbacks a run invokes at most
MaxCallbacks == 3

\* one callback invoked on behalf of the instance held
Callback(fn) == [fn |-> fn, plugin |-> instance[1].plugin]

InstanceNew ==
    \E plugin \in Plugins :
        LET made == PluginInstanceNew(plugin)
        IN  /\ instance = << >>
            /\ call' = Made("PluginInstance::new", <<plugin>>, made)
            /\ instance' = IF made.kind = "Ok" THEN <<made.val[1]>> ELSE << >>
            /\ UNCHANGED <<ev, gui_table, invoked, input, output, rusting>>

InstanceActivate ==
    /\ instance # << >>
    /\ ~instance[1].active
    /\ Len(invoked) < MaxCallbacks
    /\ invoked' = Append(invoked, Callback("activate"))
    /\ instance' = <<[instance[1] EXCEPT !.active = TRUE]>>
    /\ UNCHANGED <<call, ev, gui_table, input, output, rusting>>

InstanceProcess ==
    /\ instance # << >>
    /\ instance[1].active
    /\ Len(invoked) < MaxCallbacks
    /\ invoked' = Append(invoked, Callback("process"))
    /\ UNCHANGED <<call, ev, gui_table, plugin_vars>>

InstanceDeactivate ==
    /\ instance # << >>
    /\ instance[1].active
    /\ instance' = <<[instance[1] EXCEPT !.active = FALSE]>>
    /\ UNCHANGED <<call, ev, gui_table, invoked, input, output, rusting>>

InstanceDrop ==
    /\ instance # << >>
    /\ ~instance[1].active
    /\ instance' = << >>
    /\ UNCHANGED <<call, ev, gui_table, invoked, input, output, rusting>>

\* the plugin of a live instance calls the host back
HostCallback ==
    \E fn \in HostCallbacks :
        /\ instance # << >>
        /\ Len(invoked) < MaxCallbacks
        /\ invoked' = Append(invoked, Callback(fn))
        /\ UNCHANGED <<call, ev, gui_table, plugin_vars>>

InitInstance ==
    /\ call = NoCall
    /\ ev = << >>
    /\ gui_table = GuiOps
    /\ invoked = << >>
    /\ PluginIdle

NextInstance ==
    \/ InstanceNew
    \/ InstanceActivate
    \/ InstanceProcess
    \/ InstanceDeactivate
    \/ InstanceDrop
    \/ HostCallback

SpecInstance == InitInstance /\ [][NextInstance]_vars

---------------------------------------------------------------------------
(* Claims about plugin instances, checked under SpecInstance.              *)

\* C16: when the plugin's PluginMainThread::new returns an error,
\* PluginInstance::new returns Err and the host holds no instance; no
\* activate or process of such a plugin and no request_restart,
\* request_process or request_callback on its behalf is ever invoked.
C16_FailedInstantiation ==
    /\ (/\ call.op = "PluginInstance::new"
        /\ MainThreadNew(call.in[1]).kind = "Err") =>
            call.out.kind = "Err" /\ instance = << >>
    /\ instance # << >> => MainThreadNew(instance[1].plugin).kind = "Ok"
    /\ \A i \in 1..Len(invoked) : MainThreadNew(invoked[i].plugin).kind = "Ok"

\* C16 happens: after an instance of the gain plugin ran and was dropped, the
\* stub was instantiated and PluginInstance::new returned Err
C16_Witness ==
    /\ call.op = "PluginInstance::new"
    /\ call.in[1] = "DivaPluginStub"
    /\ call.out.kind = "Err"
    /\ instance = << >>
    /\ Len(invoked) = MaxCallbacks

---------------------------------------------------------------------------
(* The gain example: GainPlugin::process on the audio thread and the       *)
(* parameter handling of GainPluginMainThread on the main thread.          *)

\* f64 * 2.0
F64Times2(x) == IF x.nan THEN NaN ELSE F64(2 * x.v)

\* f64 as u32: NaN and negative values give 0, the fraction is cut off
\* (a value above u32::MAX would give u32::MAX; none is in the model's range)
F64AsU32(x) == IF x.nan \/ x.v < 0 THEN 0 ELSE x.v \div 10

\* u32 as f64
U32AsF64(n) == F64(n * 10)

\* Extend::extend: the events are appended one by one, first to last
RECURSIVE EventListExtend(_, _)
EventListExtend(list, events) ==
    IF events = << >> THEN list
    ELSE EventListExtend(EventListAppend(list, Head(events)), Tail(events))

\* the closure of process that passes key and channel in the other order
GainMapEventSwapped(e) ==
    LET typed == EventEvent(e)
    IN  IF typed.kind = "Some" /\ typed.val[1].type = "NoteOn"
        THEN LET ne == typed.val[1].payload
             IN  EventNew(e.time, "NoteOn",
                          GainNoteEvent(ne.port_index, ne.channel, ne.key,
                                        F64Times2(ne.velocity)))
        ELSE e

\* the closure of process: what an input event becomes
GainMapEvent(e) ==
    LET typed == EventEvent(e)
    IN  IF typed.kind = "Some" /\ typed.val[1].type = "NoteOn"
        THEN LET ne == typed.val[1].payload
             IN  EventNew(e.time, "NoteOn",
                          GainNoteEvent(ne.port_index, ne.key, ne.channel,
                                        F64Times2(ne.velocity)))
        ELSE e

\* <GainPlugin as PluginParamsImpl>::flush: nothing
GainPluginFlush(in, out) == out

\* the sample type of the audio port pair 0
AudioKinds == {"f32", "f64"}

\* a panic leaving the call
Panicked == [kind |-> "panic", val |-> << >>]

\* GainPlugin::process: what it returns and the output list after it
GainPluginProcess(audio, in, out) ==
    IF audio # "f32" THEN [ret |-> Panicked, output |-> out]
    ELSE LET mapped == [i \in 1..Len(in) |-> GainMapEvent(in[i])]
             extended == EventListExtend(out, mapped)
         IN  [ret |-> RetOkOf("ContinueIfNotQuiet"),
              output |-> GainPluginFlush(in, extended)]

\* flush taking the first event of parameter 0 and no later one
RECURSIVE FlushFirstOnly(_, _)
FlushFirstOnly(value, events) ==
    IF events = << >> THEN value
    ELSE LET typed == EventEvent(Head(events))
         IN  IF /\ typed.kind = "Some"
                /\ typed.val[1].type = "ParamValue"
                /\ typed.val[1].payload.param_id = 0
             THEN F64AsU32(typed.val[1].payload.value)
             ELSE FlushFirstOnly(value, Tail(events))

\* GainPluginMainThread::flush: rusting after the loop over the events
RECURSIVE GainFlush(_, _)
GainFlush(value, events) ==
    IF events = << >> THEN value
    ELSE LET typed == EventEvent(Head(events))
             next == IF /\ typed.kind = "Some"
                        /\ typed.val[1].type = "ParamValue"
                        /\ typed.val[1].payload.param_id = 0
                     THEN F64AsU32(typed.val[1].payload.value)
                     ELSE value
         IN  GainFlush(next, Tail(events))

\* GainPluginMainThread::get_value
GainGetValue(value, param_id) ==
    IF param_id = 0 THEN RetSome(U32AsF64(value)) ELSE RetNone

\* the longest input list
MaxGainLen == 2

\* the events handed to process: note on with key 60 on channel 1, a note off
\* with a NaN velocity, a parameter value, a record of an unknown type
ProcessEvents ==
    { EventNew(0, "NoteOn", GainNoteEvent(0, 60, 1, F64(8))),
      EventNew(10, "NoteOn", GainNoteEvent(0, 60, 1, NaN)),
      EventNew(10, "NoteOff", GainNoteEvent(0, 60, 1, NaN)),
      EventNew(0, "ParamValue", ParamValueEvent(0, F64(25))),
      EventNew(10, "Unknown", OpaquePayload) }

\* the events handed to flush: parameter 0 set to 2.5, to -1.5 and to NaN,
\* parameter 1 set to 7.0, a note on
FlushEvents ==
    { EventNew(0, "ParamValue", ParamValueEvent(0, F64(25))),
      EventNew(10, "ParamValue", ParamValueEvent(0, F64(-15))),
      EventNew(10, "ParamValue", ParamValueEvent(0, NaN)),
      EventNew(0, "ParamValue", ParamValueEvent(1, F64(70))),
      EventNew(0, "NoteOn", GainNoteEvent(0, 60, 1, F64(8))) }

ListsOf(events) == UNION { [1..n -> events] : n \in 0..MaxGainLen }

\* the output list as the host hands it over: empty, or holding an event
GainOutputs == { << >>, <<EventNew(0, "Unknown", OpaquePayload)>> }

GainProcess ==
    \E audio \in AudioKinds, in \in ListsOf(ProcessEvents), out \in GainOutputs :
        LET done == GainPluginProcess(audio, in, out)
        IN  /\ call' = Made("process", <<audio, in, out>>, done.ret)
            /\ input' = in
            /\ output' = done.output
            /\ UNCHANGED <<ev, gui_table, invoked, rusting, instance>>

GainMainThreadFlush ==
    \E in \in ListsOf(FlushEvents), out \in GainOutputs :
        /\ call' = Made("flush", <<in, out, rusting>>, RetUnit)
        /\ input' = in
        /\ output' = out
        /\ rusting' = GainFlush(rusting, in)
        /\ UNCHANGED <<ev, gui_table, invoked, instance>>

GainMainThreadGetValue ==
    \E param_id \in {0, 1} :
        /\ call' = Made("get_value", <<param_id>>, GainGetValue(rusting, param_id))
        /\ UNCHANGED <<ev, gui_table, invoked, plugin_vars>>

InitGain ==
    /\ call = NoCall
    /\ ev = << >>
    /\ gui_table = GuiOps
    /\ invoked = << >>
    /\ PluginIdle

NextGain ==
    \/ GainProcess
    \/ GainMainThreadFlush
    \/ GainMainThreadGetValue

SpecGain == InitGain /\ [][NextGain]_vars

---------------------------------------------------------------------------
(* Claims about the gain example, checked under SpecGain.                  *)

\* C18: a process call that returns has appended to the output list one
\* event per input event, in input order and with the input event's time,
\* after what the list held; a NoteOn became a NoteOn of the same port, key
\* and channel with twice the velocity, every other event, one of an
\* unrecognised type included, was copied as it is.
C18_ProcessMapsEvents ==
    (call.op = "process" /\ call.out.kind = "Ok") =>
        LET in == call.in[2]
            held == call.in[3]
        IN  /\ Len(output) = Len(held) + Len(in)
            /\ SubSeq(output, 1, Len(held)) = held
            /\ \A i \in 1..Len(in) :
                LET e == in[i]
                    o == output[Len(held) + i]
                IN  /\ o.time = e.time
                    /\ IF e.type = "NoteOn"
                       THEN /\ o.type = "NoteOn"
                            /\ o.payload.port_index = e.payload.port_index
                            /\ o.payload.key = e.payload.key
                            /\ o.payload.channel = e.payload.channel
                            /\ o.payload.velocity.nan = e.payload.velocity.nan
                            /\ o.payload.velocity.v = 2 * e.payload.velocity.v
                       ELSE o = e

\* C18 happens: process was handed a record of an unknown type at time 10
\* and then a NoteOn of velocity 0.8 at time 0, and an output list that held
\* an event; it appended the record and a NoteOn of velocity 1.6
C18_Witness ==
    /\ call.op = "process"
    /\ call.out = RetOkOf("ContinueIfNotQuiet")
    /\ Len(call.in[3]) = 1
    /\ call.in[2] = <<EventNew(10, "Unknown", OpaquePayload),
                      EventNew(0, "NoteOn", GainNoteEvent(0, 60, 1, F64(8)))>>
    /\ output[2] = EventNew(10, "Unknown", OpaquePayload)
    /\ output[3] = EventNew(0, "NoteOn", GainNoteEvent(0, 60, 1, F64(16)))

\* a value cut to a u32 and read as an f64 again
CutToU32(x) == IF x.nan \/ x.v < 0 THEN F64(0) ELSE F64(x.v - (x.v % 10))

\* C19: after flush over an input list, get_value(0) is the value, cut to a
\* u32, of the last ParamValue event of parameter 0 in the list, and what it
\* was before the flush when the list has no such event; the output list is
\* as it was; get_value of another id is None.
C19_FlushKeepsLastValue ==
    /\ call.op = "flush" =>
        LET in == call.in[1]
            hits == { i \in 1..Len(in) :
                        in[i].type = "ParamValue" /\ in[i].payload.param_id = 0 }
            last == CHOOSE i \in hits : \A j \in hits : j <= i
        IN  /\ GainGetValue(rusting, 0) =
                    IF hits = {} THEN RetSome(U32AsF64(call.in[3]))
                    ELSE RetSome(CutToU32(in[last].payload.value))
            /\ hits = {} => rusting = call.in[3]
            /\ output = call.in[2]
            /\ GainGetValue(rusting, 1) = RetNone
    /\ call.op = "get_value" =>
        call.out = IF call.in[1] = 0 THEN RetSome(U32AsF64(rusting)) ELSE RetNone

\* C19 happens: with the parameter at 2, flush ran over a list holding a
\* value of parameter 1 and a note on, and the parameter is still 2
C19_Witness ==
    /\ call.op = "flush"
    /\ call.in[3] = 2
    /\ call.in[1] = <<EventNew(0, "ParamValue", ParamValueEvent(1, F64(70))),
                      EventNew(0, "NoteOn", GainNoteEvent(0, 60, 1, F64(8)))>>
    /\ rusting = 2
    /\ GainGetValue(rusting, 0) = RetSome(F64(20))

===========================================================================
